---- MODULE Spec2Model ----
(***************************************************************************)
(* Model of the elb-log-analyzer driver: app.rs run() (syntax -> leftover  *)
(* check -> format check -> logical plan -> physical plan -> explain or    *)
(* stream -> renderer), the nom error conversion, the Value type of        *)
(* common/types.rs and the select subcommand of main.rs.                   *)
(* The syntax parser, the logical planner, the physical plan and the       *)
(* stream are called by app.rs but defined elsewhere; they are modelled    *)
(* from their documented contracts.                                        *)
(***************************************************************************)
EXTENDS Integers, Sequences, FiniteSets

VARIABLES
    query_str,      \* run(): the query, a sequence of tokens
    data_source,    \* run(): [readable, lines]
    explain_mode,   \* run(): BOOLEAN
    output_mode,    \* run(): "table" | "csv" | "json"
    pc,             \* position inside run() / main() / the stream harness
    result,         \* what run() returned: [kind, text]
    calls,          \* the calls run() has made, in order (history)
    nomErr,         \* the nom::Err the syntax parser returned, if any
    attempted,      \* the error branches the syntax parser attempted
    rest_of_str,    \* the remainder the syntax parser left
    select_stmt,    \* the parsed statement [table_name, proj, where, limit]
    cursor,         \* stream: next line of the data source to read
    taken,          \* stream: rows the Limit operator has passed through
    lastNext,       \* stream: what the latest next() returned
    yielded,        \* records next() returned as Some, in order (history)
    table,          \* table mode: rows added to the prettytable Table
    wtr,            \* csv mode: records handed to the csv Writer
    data,           \* json mode: objects pushed on the JSON array
    stdout,         \* what has been printed
    subcommand,     \* main(): the subcommand and whether both arguments exist
    mres            \* main(): [parse, eval, ret]

vars == <<query_str, data_source, explain_mode, output_mode, pc, result, calls,
          nomErr, attempted, rest_of_str, select_stmt, cursor, taken, lastNext,
          yielded, table, wtr, data, stdout, subcommand, mres>>

runInputs == <<query_str, data_source, explain_mode, output_mode>>
parseVars == <<nomErr, attempted, rest_of_str, select_stmt>>
streamVars == <<cursor, taken, lastNext, yielded>>
renderVars == <<table, wtr, data, stdout>>
mainVars == <<subcommand, mres>>

----------------------------------------------------------------------------
(* Bounds *)

MaxLines == 3     \* lines in a data source
MaxLimit == 2     \* largest LIMIT count in a query
MaxErrs == 2      \* entries a parser error accumulates
MaxPulls == 5     \* next() calls the stream harness makes

----------------------------------------------------------------------------
(* common/types.rs *)

\* enum Value { Int, Float, String, Null }
ValueVariants == {"Int", "Float", "String", "Null"}

----------------------------------------------------------------------------
(* The query text, as tokens *)

Digits == <<"0", "1", "2", "3", "4", "5", "6", "7", "8", "9">>

NumTok(n) == Digits[n + 1]

IsNum(tok) == \E n \in 0..9 : Digits[n + 1] = tok

ToNum(tok) == CHOOSE n \in 0..9 : Digits[n + 1] = tok

Tables == {"elb", "alb", "squid", "s3", "bogus", "ELB"}

Projs == {"*", "foo"}

Tails ==
    {<<>>, <<"WHERE", "cond">>, <<"WHERE">>, <<"LIMIT">>, <<"garbage">>,
     <<"WHERE", "cond", "garbage">>}
    \cup {<<"LIMIT", NumTok(n)>> : n \in 0..MaxLimit}
    \cup {<<"WHERE", "cond", "LIMIT", NumTok(n)>> : n \in 1..MaxLimit}

Queries ==
    {<<"SELECT", "*">>}
    \cup {<<"SELECT", "*", "FROM", t>> \o tl : t \in Tables, tl \in Tails}
    \cup {<<"SELECT", "foo", "FROM", t>> : t \in {"elb", "bogus"}}

Spans == {"s1", "s2"}

ErrLists == UNION {[1..k -> Spans] : k \in 0..MaxErrs}

Suffix(q, p) == SubSeq(q, p, Len(q))

NoStmt == [table_name |-> "", proj |-> "", where |-> FALSE, limit |-> -1]

NoErr == [kind |-> "none", errors |-> <<>>]

\* nom::Err<VerboseError<&str>>: Error(v) and Failure(v) carry v.errors,
\* Incomplete(Needed) carries no error list.
NomErrs(att) ==
    {[kind |-> k, errors |-> att] : k \in {"Error", "Failure"}}
    \cup {[kind |-> "Incomplete", errors |-> <<>>]}

\* syntax::parser::select_query, SELECT <projection> FROM <ident>
\* [WHERE <bool_expr>] [LIMIT <uint>]: the position reached after the optional
\* WHERE clause and after the optional LIMIT clause; 0 marks a clause that
\* starts and does not parse.
AfterWhere(q) ==
    IF Len(q) >= 5 /\ q[5] = "WHERE"
    THEN IF Len(q) >= 6 /\ q[6] = "cond" THEN 7 ELSE 0
    ELSE 5

AfterLimit(q, p) ==
    IF Len(q) >= p /\ q[p] = "LIMIT"
    THEN IF Len(q) >= p + 1 /\ IsNum(q[p + 1]) THEN p + 2 ELSE 0
    ELSE p

HeadOk(q) ==
    /\ Len(q) >= 4
    /\ q[1] = "SELECT"
    /\ q[2] \in Projs
    /\ q[3] = "FROM"
    /\ q[4] \notin {"SELECT", "FROM", "WHERE", "LIMIT"}

Stmt(q, w, l) ==
    [table_name |-> q[4], proj |-> q[2], where |-> (w = 7),
     limit |-> IF l > w THEN ToNum(q[w + 1]) ELSE -1]

\* The parse results select_query may return for q: [ok, rest, stmt].  A clause
\* that starts and does not parse either fails the parse or is left unconsumed
\* (an optional clause that backtracks).
ParseOutcomes(q) ==
    IF ~HeadOk(q) THEN {[ok |-> FALSE, rest |-> <<>>, stmt |-> NoStmt]}
    ELSE LET w == AfterWhere(q) IN
         IF w = 0
         THEN {[ok |-> FALSE, rest |-> <<>>, stmt |-> NoStmt],
               [ok |-> TRUE, rest |-> Suffix(q, 5), stmt |-> Stmt(q, 5, 5)]}
         ELSE LET l == AfterLimit(q, w) IN
              IF l = 0
              THEN {[ok |-> FALSE, rest |-> <<>>, stmt |-> NoStmt],
                    [ok |-> TRUE, rest |-> Suffix(q, w), stmt |-> Stmt(q, w, w)]}
              ELSE {[ok |-> TRUE, rest |-> Suffix(q, l), stmt |-> Stmt(q, w, l)]}

----------------------------------------------------------------------------
(* app.rs: the error conversions *)

RECURSIVE PushAll(_)
\* for (s, _) in v.errors { errors.push_str(&s.to_string()); errors.push('\n') }
PushAll(errors) ==
    IF errors = <<>> THEN <<>>
    ELSE <<Head(errors), "\n">> \o PushAll(Tail(errors))

FromNomErrFirstOnly(e) ==
    IF e.kind \in {"Failure", "Error"} /\ e.errors # <<>>
    THEN [kind |-> "Syntax", text |-> <<Head(e.errors), "\n">>]
    ELSE [kind |-> "Syntax", text |-> <<>>]

\* impl From<nom::Err<VerboseError<&str>>> for AppError
FromNomErr(e) ==
    IF e.kind = "Failure" THEN [kind |-> "Syntax", text |-> PushAll(e.errors)]
    ELSE IF e.kind = "Error" THEN [kind |-> "Syntax", text |-> PushAll(e.errors)]
    ELSE [kind |-> "Syntax", text |-> <<>>]

\* The remaining From impls wrap the cause in the variant of its stage.
AppErr(kind) == [kind |-> kind, text |-> <<>>]

Ok == [kind |-> "Ok", text |-> <<>>]

Running == [kind |-> "none", text |-> <<>>]

----------------------------------------------------------------------------
(* The data source, the plan and the stream *)

LineKinds == {"i", "s", "n", "bad"}

Sources == UNION {[1..k -> LineKinds] : k \in 0..MaxLines}

DataSources ==
    {[readable |-> FALSE, lines |-> <<>>]}
    \cup {[readable |-> TRUE, lines |-> l] : l \in Sources}

\* The Value a line's column decodes to.
ValueOf(line) ==
    IF line = "i" THEN "Int" ELSE IF line = "s" THEN "String" ELSE "Null"

NoRec == [line |-> 0, val |-> "Null"]

\* Scan: reads the next raw line; None at exhaustion; a line that fails
\* decoding is a StreamError.
ScanNext(lines, cur) ==
    IF cur > Len(lines) THEN [r |-> "None", rec |-> NoRec, cur |-> cur]
    ELSE IF lines[cur] = "bad" THEN [r |-> "Err", rec |-> NoRec, cur |-> cur + 1]
    ELSE [r |-> "Some", rec |-> [line |-> cur, val |-> ValueOf(lines[cur])],
          cur |-> cur + 1]

\* A comparison involving Null evaluates to "not true".
Predicate(rec) == rec.val # "Null"

RECURSIVE FilterNext(_, _, _)
\* Filter: pulls from its child until the predicate is true or the child is
\* exhausted (or fails).
FilterNext(where, lines, cur) ==
    LET c == ScanNext(lines, cur) IN
    IF c.r = "Some" /\ where /\ ~Predicate(c.rec)
    THEN FilterNext(where, lines, c.cur)
    ELSE c

\* Project: maps the child's tuple to the output columns, in requested order.
ProjectNext(where, lines, cur) ==
    LET c == FilterNext(where, lines, cur) IN
    IF c.r = "Some"
    THEN [c EXCEPT !.rec = [line |-> c.rec.line, val |-> c.rec.val]]
    ELSE c

LimitNextUnbounded(stmt, lines, cur, tk) ==
    LET c == ProjectNext(stmt.where, lines, cur) IN
    [r |-> c.r, rec |-> c.rec, cur |-> c.cur,
     taken |-> IF c.r = "Some" THEN tk + 1 ELSE tk]

\* Limit: passes through at most n rows, then reports None without pulling
\* its child.  A statement without LIMIT has limit = -1.
LimitNext(stmt, lines, cur, tk) ==
    IF stmt.limit >= 0 /\ tk >= stmt.limit
    THEN [r |-> "None", rec |-> NoRec, cur |-> cur, taken |-> tk]
    ELSE LET c == ProjectNext(stmt.where, lines, cur) IN
         [r |-> c.r, rec |-> c.rec, cur |-> c.cur,
          taken |-> IF c.r = "Some" THEN tk + 1 ELSE tk]

\* logical::parser::parse_query: an unknown projected column is a ParseError.
PlanOk(stmt) == stmt.proj = "*"

\* node.physical(..): binding an unreadable data source is a PhysicalPlanError.
BindOk(ds) == ds.readable

----------------------------------------------------------------------------
(* app.rs: the renderers' conversions *)

\* record.to_row(): the display cells
to_row(rec) == <<"cell", rec.line, rec.val>>

\* record.to_csv_record(): the strings
to_csv_record(rec) == <<"field", rec.line, rec.val>>

\* the arms of `match val` in the JSON renderer
JsonArms ==
    {"Boolean", "DateTime", "Float", "Host", "HttpRequest", "Int", "Null",
     "String"}

JsonOf(val) ==
    IF val = "Boolean" THEN "boolean"
    ELSE IF val = "DateTime" THEN "string"
    ELSE IF val = "Float" THEN "number"
    ELSE IF val = "Host" THEN "string"
    ELSE IF val = "HttpRequest" THEN "string"
    ELSE IF val = "Int" THEN "number"
    ELSE IF val = "Null" THEN "null"
    ELSE "string"

\* for (key, val) in record.to_tuples() { obj[key] = ... }
to_json(rec) == <<"obj", rec.line, JsonOf(rec.val)>>

----------------------------------------------------------------------------
(* app.rs: run() *)

KnownFormatsAnyCase == {"elb", "alb", "squid", "s3", "ELB"}

\* ["elb", "alb", "squid", "s3"]
KnownFormats == {"elb", "alb", "squid", "s3"}

NotAllConsumedIgnored(rest) == FALSE

\* !rest_of_str.is_empty()
NotAllConsumed(rest) == rest # <<>>

\* return Err(e): run() returns; the csv Writer, if any, is dropped and
\* flushes what it holds.
Return(res) ==
    /\ result' = res
    /\ pc' = "returned"

\* let (rest_of_str, select_stmt) = select_query(&query_str)?;
\* if !rest_of_str.is_empty() { return Err(InputNotAllConsumed(..)) }
SelectQuery ==
    /\ pc = "run"
    /\ calls' = Append(calls, "select_query")
    /\ \E o \in ParseOutcomes(query_str) :
         IF ~o.ok
         THEN \E att \in ErrLists : \E e \in NomErrs(att) :
                /\ attempted' = att
                /\ nomErr' = e
                /\ Return(FromNomErr(e))
                /\ UNCHANGED <<rest_of_str, select_stmt>>
         ELSE /\ rest_of_str' = o.rest
              /\ select_stmt' = o.stmt
              /\ UNCHANGED <<nomErr, attempted>>
              /\ IF NotAllConsumed(o.rest)
                 THEN Return([kind |-> "InputNotAllConsumed", text |-> o.rest])
                 ELSE /\ pc' = "format_check"
                      /\ UNCHANGED result
    /\ UNCHANGED <<runInputs, streamVars, renderVars, mainVars>>

FormatCheckSkipped ==
    /\ pc = "format_check"
    /\ calls' = Append(calls, "format_check")
    /\ pc' = "parse_query"
    /\ UNCHANGED <<runInputs, result, parseVars, streamVars, renderVars, mainVars>>

\* if ![..].contains(&&*select_stmt.table_name) { return Err(InvalidLogFileFormat) }
FormatCheck ==
    /\ pc = "format_check"
    /\ calls' = Append(calls, "format_check")
    /\ IF select_stmt.table_name \notin KnownFormats
       THEN Return(AppErr("InvalidLogFileFormat"))
       ELSE /\ pc' = "parse_query"
            /\ UNCHANGED result
    /\ UNCHANGED <<runInputs, parseVars, streamVars, renderVars, mainVars>>

\* let node = logical::parser::parse_query(select_stmt, data_source.clone())?;
ParseQuery ==
    /\ pc = "parse_query"
    /\ calls' = Append(calls, "parse_query")
    /\ IF PlanOk(select_stmt)
       THEN /\ pc' = "physical"
            /\ UNCHANGED result
       ELSE Return(AppErr("Parse"))
    /\ UNCHANGED <<runInputs, parseVars, streamVars, renderVars, mainVars>>

\* let (physical_plan, variables) = node.physical(&mut physical_plan_creator)?;
Physical ==
    /\ pc = "physical"
    /\ calls' = Append(calls, "physical")
    /\ IF BindOk(data_source)
       THEN /\ pc' = "plan"
            /\ UNCHANGED result
       ELSE Return(AppErr("PhysicalPlan"))
    /\ UNCHANGED <<runInputs, parseVars, streamVars, renderVars, mainVars>>

ExplainThenExecute ==
    /\ pc = "plan"
    /\ explain_mode
    /\ stdout' = stdout \o <<<<"line", "Query Plan:">>, <<"plan", select_stmt>>>>
    /\ calls' = Append(calls, "get")
    /\ pc' = "render"
    /\ cursor' = 1
    /\ taken' = 0
    /\ UNCHANGED <<runInputs, parseVars, result, lastNext, yielded, table, wtr,
                   data, mainVars>>

\* if explain_mode { println!("Query Plan:"); println!("{:?}", physical_plan); Ok(()) }
Explain ==
    /\ pc = "plan"
    /\ explain_mode
    /\ stdout' = stdout \o <<<<"line", "Query Plan:">>, <<"plan", select_stmt>>>>
    /\ Return(Ok)
    /\ UNCHANGED <<runInputs, parseVars, calls, streamVars, table, wtr, data,
                   mainVars>>

\* let mut stream = physical_plan.get(variables)?;
GetStream ==
    /\ pc = "plan"
    /\ ~explain_mode
    /\ calls' = Append(calls, "get")
    /\ \E created \in BOOLEAN :
         IF created
         THEN /\ pc' = "render"
              /\ cursor' = 1
              /\ taken' = 0
              /\ UNCHANGED result
         ELSE /\ Return(AppErr("CreateStream"))
              /\ UNCHANGED <<cursor, taken>>
    /\ UNCHANGED <<runInputs, parseVars, lastNext, yielded, renderVars, mainVars>>

\* stream.next(): the call and its effect on the stream
Pull(n) ==
    /\ calls' = Append(calls, "next")
    /\ cursor' = n.cur
    /\ taken' = n.taken
    /\ lastNext' = n.r
    /\ yielded' = IF n.r = "Some" THEN Append(yielded, n.rec) ELSE yielded

StreamNext == LimitNext(select_stmt, data_source.lines, cursor, taken)

\* stream.next()? returning Err: the error is converted and returned
OnStreamErrContinue(flush) ==
    /\ UNCHANGED <<pc, result, stdout>>

OnStreamErr(flush) ==
    /\ Return(AppErr("Stream"))
    /\ stdout' = stdout \o flush

TableEagerPrint(n) ==
    /\ pc = "render"
    /\ output_mode = "table"
    /\ Pull(n)
    /\ IF n.r = "Some"
       THEN /\ table' = Append(table, to_row(n.rec))
            /\ stdout' = Append(stdout, <<"table", <<to_row(n.rec)>>>>)
            /\ UNCHANGED <<pc, result>>
       ELSE IF n.r = "None"
       THEN /\ Return(Ok)
            /\ UNCHANGED <<table, stdout>>
       ELSE /\ OnStreamErr(<<>>)
            /\ UNCHANGED table
    /\ UNCHANGED <<runInputs, parseVars, wtr, data, mainVars>>

\* OutputMode::Table: one turn of `while let Some(record) = stream.next()?`,
\* then table.printstd()
TableStep(n) ==
    /\ pc = "render"
    /\ output_mode = "table"
    /\ Pull(n)
    /\ IF n.r = "Some"
       THEN /\ table' = Append(table, to_row(n.rec))
            /\ UNCHANGED <<pc, result, stdout>>
       ELSE IF n.r = "None"
       THEN /\ stdout' = Append(stdout, <<"table", table>>)
            /\ Return(Ok)
            /\ UNCHANGED table
       ELSE /\ OnStreamErr(<<>>)
            /\ UNCHANGED table
    /\ UNCHANGED <<runInputs, parseVars, wtr, data, mainVars>>

RenderTable == TableStep(StreamNext)

\* What the csv Writer flushes when it is dropped.
Flush(w) == [i \in 1..Len(w) |-> <<"csv", w[i]>>]

\* OutputMode::Csv: one turn of the loop; wtr.write_record(csv_record)? may
\* fail; the Writer is dropped when run() returns.
CsvStep(n) ==
    /\ pc = "render"
    /\ output_mode = "csv"
    /\ Pull(n)
    /\ IF n.r = "Some"
       THEN \E written \in BOOLEAN :
              IF written
              THEN /\ wtr' = Append(wtr, to_csv_record(n.rec))
                   /\ UNCHANGED <<pc, result, stdout>>
              ELSE /\ Return(AppErr("WriteCsv"))
                   /\ stdout' = stdout \o Flush(wtr)
                   /\ UNCHANGED wtr
       ELSE IF n.r = "None"
       THEN /\ stdout' = stdout \o Flush(wtr)
            /\ Return(Ok)
            /\ UNCHANGED wtr
       ELSE /\ OnStreamErr(Flush(wtr))
            /\ UNCHANGED wtr
    /\ UNCHANGED <<runInputs, parseVars, table, data, mainVars>>

RenderCsv == CsvStep(StreamNext)

\* OutputMode::Json: one turn of the loop (data.push on an array cannot
\* fail), then println!("{}", data.dump())
JsonStep(n) ==
    /\ pc = "render"
    /\ output_mode = "json"
    /\ Pull(n)
    /\ IF n.r = "Some"
       THEN /\ data' = Append(data, to_json(n.rec))
            /\ UNCHANGED <<pc, result, stdout>>
       ELSE IF n.r = "None"
       THEN /\ stdout' = Append(stdout, <<"json", data>>)
            /\ Return(Ok)
            /\ UNCHANGED data
       ELSE /\ OnStreamErr(<<>>)
            /\ UNCHANGED data
    /\ UNCHANGED <<runInputs, parseVars, table, wtr, mainVars>>

RenderJson == JsonStep(StreamNext)

----------------------------------------------------------------------------
(* main.rs: main() *)

Subcommands == [name : {"select", "other"}, args : BOOLEAN]

NoMain == [parse |-> "none", eval |-> "none", ret |-> "none"]

\* The outcomes of parser::parse and of evaluator::eval.
LegacyOutcomes == {"Ok", "Err"}

\* match app_m.subcommand() { ("select", Some(sub_m)) => match parser::parse(..)
MainDispatch ==
    /\ pc = "main"
    /\ IF subcommand.name = "select"
       THEN IF subcommand.args
            THEN \E p \in LegacyOutcomes :
                   /\ mres' = [mres EXCEPT !.parse = p]
                   /\ IF p = "Ok"
                      THEN /\ pc' = "main_eval"
                           /\ UNCHANGED stdout
                      ELSE /\ pc' = "main_ret"
                           /\ stdout' = Append(stdout, <<"debug", "parse">>)
            ELSE /\ pc' = "main_ret"
                 /\ UNCHANGED <<mres, stdout>>
       ELSE /\ pc' = "main_ret"
            /\ UNCHANGED <<mres, stdout>>
    /\ UNCHANGED <<runInputs, result, calls, parseVars, streamVars, table, wtr,
                   data, subcommand>>

MainEvalPropagate ==
    /\ pc = "main_eval"
    /\ \E e \in LegacyOutcomes :
         /\ IF e = "Ok"
            THEN /\ mres' = [mres EXCEPT !.eval = e]
                 /\ pc' = "main_ret"
            ELSE /\ mres' = [mres EXCEPT !.eval = e, !.ret = "Err"]
                 /\ pc' = "main_done"
         /\ UNCHANGED stdout
    /\ UNCHANGED <<runInputs, result, calls, parseVars, streamVars, table, wtr,
                   data, subcommand>>

\* match evaluator::eval(&node, &env) { Ok(_) => {} Err(e) => println!("{:?}", e) }
MainEval ==
    /\ pc = "main_eval"
    /\ \E e \in LegacyOutcomes :
         /\ mres' = [mres EXCEPT !.eval = e]
         /\ stdout' = IF e = "Ok" THEN stdout
                      ELSE Append(stdout, <<"debug", "eval">>)
    /\ pc' = "main_ret"
    /\ UNCHANGED <<runInputs, result, calls, parseVars, streamVars, table, wtr,
                   data, subcommand>>

\* Ok(())
MainReturn ==
    /\ pc = "main_ret"
    /\ mres' = [mres EXCEPT !.ret = "Ok"]
    /\ pc' = "main_done"
    /\ UNCHANGED <<runInputs, result, calls, parseVars, streamVars, renderVars,
                   subcommand>>

----------------------------------------------------------------------------
(* Specifications *)

Fresh ==
    /\ result = Running
    /\ calls = <<>>
    /\ nomErr = NoErr
    /\ attempted = <<>>
    /\ rest_of_str = <<>>
    /\ cursor = 1
    /\ taken = 0
    /\ lastNext = "Open"
    /\ yielded = <<>>
    /\ table = <<>>
    /\ wtr = <<>>
    /\ data = <<>>
    /\ stdout = <<>>
    /\ mres = NoMain

\* run(query_str, data_source, explain_mode, output_mode)
InitRun ==
    /\ pc = "run"
    /\ query_str \in Queries
    /\ data_source \in DataSources
    /\ explain_mode \in BOOLEAN
    /\ output_mode \in {"table", "csv", "json"}
    /\ select_stmt = NoStmt
    /\ subcommand = [name |-> "other", args |-> FALSE]
    /\ Fresh

\* main()
InitMain ==
    /\ pc = "main"
    /\ subcommand \in Subcommands
    /\ query_str = <<>>
    /\ data_source = [readable |-> FALSE, lines |-> <<>>]
    /\ explain_mode = FALSE
    /\ output_mode = "table"
    /\ select_stmt = NoStmt
    /\ Fresh

Init == InitRun \/ InitMain

Next ==
    \/ SelectQuery
    \/ FormatCheck
    \/ ParseQuery
    \/ Physical
    \/ Explain
    \/ GetStream
    \/ RenderTable
    \/ RenderCsv
    \/ RenderJson
    \/ MainDispatch
    \/ MainEval
    \/ MainReturn

Spec == Init /\ [][Next]_vars

\* A stream over any plan and data source, pulled any number of times.
StreamStmts ==
    {[table_name |-> "elb", proj |-> "*", where |-> w, limit |-> l] :
        w \in BOOLEAN, l \in -1..MaxLimit}

InitStream ==
    /\ pc = "pull"
    /\ select_stmt \in StreamStmts
    /\ data_source \in {d \in DataSources : d.readable}
    /\ query_str = <<>>
    /\ explain_mode = FALSE
    /\ output_mode = "table"
    /\ subcommand = [name |-> "other", args |-> FALSE]
    /\ Fresh

HarnessPull ==
    /\ pc = "pull"
    /\ Len(calls) < MaxPulls
    /\ Pull(StreamNext)
    /\ UNCHANGED <<runInputs, pc, result, parseVars, renderVars, mainVars>>

NextStream == HarnessPull

SpecStream == InitStream /\ [][NextStream]_vars

----------------------------------------------------------------------------
(* Claims *)

Has(cs, c) == \E i \in DOMAIN cs : cs[i] = c

Count(cs, c) == Cardinality({i \in DOMAIN cs : cs[i] = c})

InRun == pc \in {"run", "format_check", "parse_query", "physical", "plan",
                 "render", "returned"}

Stages == <<"select_query", "format_check", "parse_query", "physical", "get">>

\* C1: when the syntax parser succeeds and leaves a non-empty remainder, run()
\* returns InputNotAllConsumed carrying exactly that remainder (the unconsumed
\* end of the query), and no later stage is performed: select_query is the
\* only call made and nothing is printed.
C1_LeftoverIsError ==
    (InRun /\ pc # "run" /\ nomErr.kind = "none" /\ rest_of_str # <<>>) =>
        /\ pc = "returned"
        /\ result = [kind |-> "InputNotAllConsumed", text |-> rest_of_str]
        /\ result.text = Suffix(query_str, Len(query_str) - Len(rest_of_str) + 1)
        /\ calls = <<"select_query">>
        /\ stdout = <<>>
        /\ yielded = <<>>

C1_Witness ==
    /\ pc = "returned"
    /\ result.kind = "InputNotAllConsumed"
    /\ result.text = <<"garbage">>
    /\ query_str[4] = "s3"

\* C2: a fully parsed statement passes the format check exactly when its table
\* name is one of elb, alb, squid, s3 (case-sensitive); for any other name
\* run() returns InvalidLogFileFormat and parse_query, the physical-plan
\* compiler and the stream are never invoked.
C2_OnlyKnownFormats ==
    (InRun /\ pc \notin {"run", "format_check"} /\ nomErr.kind = "none"
       /\ rest_of_str = <<>>) =>
        IF select_stmt.table_name \in {"elb", "alb", "squid", "s3"}
        THEN /\ result.kind # "InvalidLogFileFormat"
             /\ pc = "returned" => Has(calls, "parse_query")
        ELSE /\ pc = "returned"
             /\ result = AppErr("InvalidLogFileFormat")
             /\ calls = <<"select_query", "format_check">>
             /\ stdout = <<>>

C2_Witness ==
    /\ pc = "returned"
    /\ result.kind = "InvalidLogFileFormat"
    /\ select_stmt.table_name = "ELB"

UnknownTable ==
    /\ InRun
    /\ HeadOk(query_str)
    /\ query_str[4] \notin {"elb", "alb", "squid", "s3"}

\* C3 as stated: a query whose table identifier is not a known format ends in
\* InvalidLogFileFormat whatever follows the table identifier.
C3_AlwaysInvalidFormat ==
    (UnknownTable /\ pc = "returned") => result.kind = "InvalidLogFileFormat"

\* C3 amended: the format check comes after the syntax parse and the leftover
\* check.  A query whose table identifier is not a known format ends in
\* InvalidLogFileFormat exactly when the parser consumed the whole query (and
\* then before planning); when the parse fails it ends in Syntax, when text is
\* left over it ends in InputNotAllConsumed, and it never reaches the planner.
C3_InvalidFormatAfterParse ==
    (UnknownTable /\ pc = "returned") =>
        /\ ~Has(calls, "parse_query")
        /\ \/ /\ result.kind = "Syntax"
              /\ nomErr.kind # "none"
              /\ calls = <<"select_query">>
           \/ /\ result.kind = "InputNotAllConsumed"
              /\ rest_of_str # <<>>
              /\ calls = <<"select_query">>
           \/ /\ result.kind = "InvalidLogFileFormat"
              /\ nomErr.kind = "none"
              /\ rest_of_str = <<>>
              /\ calls = <<"select_query", "format_check">>
        /\ Len(query_str) = 4 => result.kind = "InvalidLogFileFormat"

C3_Witness ==
    /\ pc = "returned"
    /\ query_str = <<"SELECT", "*", "FROM", "bogus", "WHERE", "cond", "garbage">>
    /\ result.kind = "InputNotAllConsumed"

\* C4: in explain mode a query that passes parsing, the format check, planning
\* and lowering has the plan printed and run() returns Ok; the stream is never
\* instantiated (no get) and next() is never called, in every output mode.
C4_ExplainReadsNothing ==
    (InRun /\ explain_mode) =>
        /\ ~Has(calls, "get")
        /\ ~Has(calls, "next")
        /\ yielded = <<>> /\ lastNext = "Open" /\ cursor = 1
        /\ table = <<>> /\ wtr = <<>> /\ data = <<>>
        /\ (pc = "returned" /\ Has(calls, "physical")
              /\ result.kind # "PhysicalPlan") =>
             /\ result = Ok
             /\ calls = SubSeq(Stages, 1, 4)
             /\ Len(stdout) = 2
             /\ stdout[1] = <<"line", "Query Plan:">>
             /\ stdout[2] = <<"plan", select_stmt>>

C4_Witness ==
    /\ explain_mode
    /\ pc = "returned"
    /\ result.kind = "Ok"
    /\ output_mode = "json"
    /\ Len(data_source.lines) > 0

\* C5: in every output mode the first error next() returns ends run(): it is
\* the last call made, every call before it returned a record, no record is
\* rendered beyond those, and run() returns AppError::Stream; a run that
\* streamed returns Ok only after next() returned None.
C5_StreamErrorStops ==
    /\ (InRun /\ lastNext = "Err") =>
        /\ pc = "returned"
        /\ result = AppErr("Stream")
        /\ calls[Len(calls)] = "next"
        /\ Count(calls, "next") = Len(yielded) + 1
        /\ Len(table) + Len(wtr) + Len(data) = Len(yielded)
        /\ \A i \in DOMAIN yielded : yielded[i].line < cursor - 1
    /\ (InRun /\ pc = "returned" /\ result.kind = "Ok" /\ ~explain_mode) =>
        lastNext = "None"

C5_Witness ==
    /\ lastNext = "Err"
    /\ output_mode = "table"
    /\ Len(yielded) >= 1
    /\ cursor <= Len(data_source.lines)

\* C6 as stated: the Value type has exactly the eight variants Boolean, Int,
\* Float, String, DateTime, Host, HttpRequest, Null, and the variants the JSON
\* renderer handles are exactly the variants the type defines, so that every
\* value of a record the stream yields is of a variant with one encoding.
C6_RendererMatchesValue ==
    /\ \A i \in DOMAIN yielded : yielded[i].val \in ValueVariants \cap JsonArms
    /\ Cardinality(ValueVariants) = 8
    /\ ValueVariants = {"Boolean", "Int", "Float", "String", "DateTime", "Host",
                        "HttpRequest", "Null"}
    /\ JsonArms = ValueVariants

MainPrinted ==
    IF mres.parse = "Err" THEN <<<<"debug", "parse">>>>
    ELSE IF mres.eval = "Err" THEN <<<<"debug", "eval">>>>
    ELSE <<>>

\* The calls run() has made when it returns a result of the given kind.
CallsOf(kind) ==
    IF kind \in {"Syntax", "InputNotAllConsumed"} THEN SubSeq(Stages, 1, 1)
    ELSE IF kind = "InvalidLogFileFormat" THEN SubSeq(Stages, 1, 2)
    ELSE IF kind = "Parse" THEN SubSeq(Stages, 1, 3)
    ELSE IF kind = "PhysicalPlan" THEN SubSeq(Stages, 1, 4)
    ELSE Stages

\* C7: errors are values.  Whatever parse and eval return for a select
\* subcommand, main prints the error, if any, and returns Ok(()), and eval is
\* attempted only after parse succeeded; in run() a failing stage returns the
\* AppError of that stage, and the calls made are exactly the stages up to it.
C7_ErrorsAreValues ==
    /\ mres.ret # "Err"
    /\ pc = "main_done" =>
        /\ mres.ret = "Ok"
        /\ mres.eval # "none" => mres.parse = "Ok"
        /\ mres.parse # "none" => (subcommand.name = "select" /\ subcommand.args)
        /\ stdout = MainPrinted
    /\ (pc = "returned" /\ result.kind # "Ok") =>
        /\ result.kind \in {"Syntax", "InputNotAllConsumed",
                            "InvalidLogFileFormat", "Parse", "PhysicalPlan",
                            "CreateStream", "Stream", "WriteCsv"}
        /\ SubSeq(calls, 1, Len(CallsOf(result.kind))) = CallsOf(result.kind)
        /\ \A i \in DOMAIN calls : i > Len(CallsOf(result.kind)) =>
             /\ calls[i] = "next"
             /\ result.kind \in {"Stream", "WriteCsv"}
        /\ result.kind \in {"Stream", "WriteCsv"} => Has(calls, "next")
        /\ result.kind = "Parse" => ~PlanOk(select_stmt)
        /\ result.kind = "PhysicalPlan" => ~BindOk(data_source)

C7_Witness ==
    /\ pc = "main_done"
    /\ mres.parse = "Ok"
    /\ mres.eval = "Err"
    /\ mres.ret = "Ok"

\* C8: with LIMIT n the stream yields at most n records over any sequence of
\* next() calls, and after next() has returned None every later next() returns
\* None as well, even if the data source still has lines.
C8_LimitAndExhaustion ==
    [][/\ select_stmt.limit >= 0 => Len(yielded') <= select_stmt.limit
       /\ lastNext = "None" => (lastNext' = "None" /\ yielded' = yielded)]_vars

C8_Witness ==
    /\ pc = "pull"
    /\ select_stmt.limit = 1
    /\ Len(yielded) = 1
    /\ lastNext = "None"
    /\ Count(calls, "next") >= 3
    /\ cursor <= Len(data_source.lines)

AllLines(errors, text) ==
    /\ Len(text) = 2 * Len(errors)
    /\ \A i \in DOMAIN errors :
         /\ text[2 * i - 1] = errors[i]
         /\ text[2 * i] = "\n"

\* C9 as stated: on every syntax-parse failure, an incomplete-input result
\* included, the diagnostic text holds every error branch the parser
\* attempted, in order, each followed by a newline.
C9_AllBranchesAlways ==
    result.kind = "Syntax" => AllLines(attempted, result.text)

\* C9 amended: for a parser Error or Failure carrying k accumulated entries the
\* diagnostic text is all k entries in list order, each followed by a newline;
\* for an incomplete-input result the diagnostic text is empty, whatever
\* branches the parser attempted.
C9_AllBranchesOfErrorOrFailure ==
    result.kind = "Syntax" =>
        /\ nomErr.kind \in {"Error", "Failure", "Incomplete"}
        /\ nomErr.kind \in {"Error", "Failure"} =>
             /\ nomErr.errors = attempted
             /\ AllLines(nomErr.errors, result.text)
        /\ nomErr.kind = "Incomplete" => result.text = <<>>

C9_Witness ==
    /\ result.kind = "Syntax"
    /\ nomErr.kind = "Error"
    /\ result.text = <<"s2", "\n", "s1", "\n">>

\* C10: when the stream fails after yielding records, table and JSON mode have
\* printed nothing (they print only after None), while CSV mode has handed
\* each record to the writer as it was pulled, so exactly the records yielded
\* before the error are written, in order; when the stream ends with None all
\* three modes emit every yielded record once, in stream order.
C10_EmittedByMode ==
    /\ (pc = "render" /\ output_mode = "csv") =>
         /\ wtr = [i \in DOMAIN yielded |-> to_csv_record(yielded[i])]
         /\ stdout = <<>>
    /\ (pc = "render" /\ output_mode # "csv") => stdout = <<>>
    /\ (pc = "returned" /\ result.kind = "Stream") =>
         IF output_mode = "csv"
         THEN stdout = [i \in DOMAIN yielded |->
                           <<"csv", to_csv_record(yielded[i])>>]
         ELSE stdout = <<>>
    /\ (pc = "returned" /\ result.kind = "Ok" /\ Has(calls, "next")) =>
         IF output_mode = "csv"
         THEN stdout = [i \in DOMAIN yielded |->
                           <<"csv", to_csv_record(yielded[i])>>]
         ELSE IF output_mode = "table"
         THEN stdout = <<<<"table", [i \in DOMAIN yielded |->
                                        to_row(yielded[i])]>>>>
         ELSE stdout = <<<<"json", [i \in DOMAIN yielded |->
                                       to_json(yielded[i])]>>>>

C10_Witness ==
    /\ pc = "returned"
    /\ result.kind = "Stream"
    /\ output_mode = "csv"
    /\ Len(stdout) = 2

====
